---- MODULE Spec2Model ----
(***************************************************************************)
(* A model of filament's conversion engine: to_json (native value -> JSON  *)
(* value) and from_json (JSON value + target type -> native value), the    *)
(* TaggedClass registry and the constraints evaluated during import.       *)
(*                                                                         *)
(* Values are tagged tuples <<kind, payload>>; a Python str is the         *)
(* sequence of its characters, so that int("5"), str(5), Decimal("1.0")    *)
(* and isoformat()/fromisoformat() are computed, not assumed.              *)
(***************************************************************************)
EXTENDS Integers, Sequences, FiniteSets, TLC

VARIABLES
    declared,       \* the TaggedClass subclasses whose class statement has run
    filament_tag,   \* class -> the tag it registered under (cls.filament_tag)
    registry_of,    \* class -> identity of the dict object cls.filament_tags
    filament_tags,  \* registry identity -> (tag -> class)
    call            \* the last top-level call and its outcome

vars == <<declared, filament_tag, registry_of, filament_tags, call>>

-----------------------------------------------------------------------------
(* Bounds of the model *)

\* Longest JSON array of numbers handed to from_json.
MaxListLen == 2

\* the frames the interpreter allows before it raises RecursionError
\* (sys.getrecursionlimit(), 1000 by default)
RecursionLimit == 3

-----------------------------------------------------------------------------
(* Python values *)

None == <<"none", 0>>
Bool(b) == <<"bool", b>>
IntV(n) == <<"int", n>>
Str(chars) == <<"str", chars>>
EnumV(cls, member) == <<"enum", <<cls, member>>>>
\* Decimal: sign (0 or 1), coefficient, exponent (as_tuple without digit split)
DecimalV(sign, coeff, exp) == <<"Decimal", <<sign, coeff, exp>>>>
DateV(y, m, d) == <<"date", <<y, m, d>>>>
TimeV(h, m, s, us) == <<"time", <<h, m, s, us>>>>
DatetimeV(y, mo, d, h, mi, s, us) == <<"datetime", <<y, mo, d, h, mi, s, us>>>>
List(items) == <<"list", items>>
Tuple(items) == <<"tuple", items>>
\* dict: its items, in insertion order, each <<key, value>>
Dict(items) == <<"dict", items>>
\* an instance: its class and its attributes <<name, value>>
Obj(cls, attrs) == <<"obj", cls, attrs>>
Function(name) == <<"function", name>>
ClassObject(name) == <<"type", name>>

Kind(v) == v[1]

-----------------------------------------------------------------------------
(* Type descriptors (what typing hands to from_json as target_type) *)

TNone == <<"NoneType">>
TInt == <<"int">>
TBool == <<"bool">>
TStr == <<"str">>
TDecimal == <<"Decimal">>
TDate == <<"date">>
TTime == <<"time">>
TDatetime == <<"datetime">>
TEnum(name) == <<"Enum", name>>
Union(args) == <<"Union", args>>
Optional(t) == Union(<<t, TNone>>)
ListOf(t) == <<"list", t>>
DictOf(k, v) == <<"dict", k, v>>
TupleOf(args) == <<"tuple", args>>
Class(name) == <<"class", name>>
Annotated(t, constraints) == <<"Annotated", t, constraints>>

-----------------------------------------------------------------------------
(* Characters and the str <-> int conversions *)

DigitChars == <<"0", "1", "2", "3", "4", "5", "6", "7", "8", "9">>
Digits == {DigitChars[i] : i \in 1..10}
Digit(n) == DigitChars[n + 1]
DigitVal(c) == CHOOSE n \in 0..9 : DigitChars[n + 1] = c

\* The characters of an identifier of the program (a field name, a class
\* name, a tag): one-letter names are their own single character.
Chars(name) ==
    CASE name = "class" -> <<"c", "l", "a", "s", "s">>
      [] name = "foobar" -> <<"f", "o", "o", "b", "a", "r">>
      [] name = "ZZZ" -> <<"Z", "Z", "Z">>
      [] name = "num" -> <<"n", "u", "m">>
      [] name = "text" -> <<"t", "e", "x", "t">>
      [] name = "items" -> <<"i", "t", "e", "m", "s">>
      [] name = "inner" -> <<"i", "n", "n", "e", "r">>
      [] name = "True" -> <<"T", "r", "u", "e">>
      [] name = "False" -> <<"F", "a", "l", "s", "e">>
      [] name = "None" -> <<"N", "o", "n", "e">>
      [] OTHER -> <<name>>

RECURSIVE NatToStr(_)
NatToStr(n) ==
    IF n < 10 THEN <<Digit(n)>> ELSE NatToStr(n \div 10) \o <<Digit(n % 10)>>

\* str(n) for an int n
IntToStr(n) == IF n < 0 THEN <<"-">> \o NatToStr(-n) ELSE NatToStr(n)

RECURSIVE DigitsToNat(_)
DigitsToNat(s) ==
    IF s = <<>> THEN 0
    ELSE 10 * DigitsToNat(SubSeq(s, 1, Len(s) - 1)) + DigitVal(s[Len(s)])

AllDigits(s) == Len(s) > 0 /\ \A i \in 1..Len(s) : s[i] \in Digits

Unsigned(s) == IF Len(s) > 0 /\ s[1] \in {"-", "+"} THEN Tail(s) ELSE s

\* whether int(s) accepts the str s: an optional sign and decimal digits
IsIntLiteral(s) == AllDigits(Unsigned(s))

\* int(s) for a str s that int() accepts
StrToInt(s) ==
    IF Len(s) > 0 /\ s[1] = "-" THEN -DigitsToNat(Unsigned(s))
    ELSE DigitsToNat(Unsigned(s))

Pad(s, width) == [i \in 1..(width - Len(s)) |-> "0"] \o s

IndexOf(s, c) ==
    IF \E i \in 1..Len(s) : s[i] = c
    THEN CHOOSE i \in 1..Len(s) : s[i] = c /\ \A j \in 1..(i - 1) : s[j] # c
    ELSE 0

-----------------------------------------------------------------------------
(* Decimal <-> str.  Modelled for the plain notation: exponent <= 0 and    *)
(* more than -6 digits left of the point, where Decimal.__str__ uses no    *)
(* exponent; the literals parsed are [sign] digits [. digits].             *)

\* str(d) for a Decimal d = <<sign, coeff, exp>> with exp <= 0
DecimalToStr(d) ==
    LET digits == NatToStr(d[2])
        dotplace == Len(digits) + d[3]
        intpart == IF dotplace <= 0 THEN <<"0">> ELSE SubSeq(digits, 1, dotplace)
        fracpart ==
            IF d[3] = 0 THEN <<>>
            ELSE IF dotplace <= 0
                 THEN <<".">> \o [i \in 1..(-dotplace) |-> "0"] \o digits
                 ELSE <<".">> \o SubSeq(digits, dotplace + 1, Len(digits))
    IN  (IF d[1] = 1 THEN <<"-">> ELSE <<>>) \o intpart \o fracpart

DecimalIntPart(s) ==
    LET u == Unsigned(s)
        dot == IndexOf(u, ".")
    IN  IF dot = 0 THEN u ELSE SubSeq(u, 1, dot - 1)

DecimalFracPart(s) ==
    LET u == Unsigned(s)
        dot == IndexOf(u, ".")
    IN  IF dot = 0 THEN <<>> ELSE SubSeq(u, dot + 1, Len(u))

\* whether Decimal(s) accepts the str s
IsDecimalLiteral(s) ==
    LET all == DecimalIntPart(s) \o DecimalFracPart(s)
    IN  AllDigits(all)

\* Decimal(s) for a str s that Decimal() accepts
StrToDecimal(s) ==
    <<IF Len(s) > 0 /\ s[1] = "-" THEN 1 ELSE 0,
      DigitsToNat(DecimalIntPart(s) \o DecimalFracPart(s)),
      -Len(DecimalFracPart(s))>>

-----------------------------------------------------------------------------
(* date, time, datetime <-> ISO 8601 str *)

\* date.isoformat(): YYYY-MM-DD
DateToIso(d) ==
    Pad(NatToStr(d[1]), 4) \o <<"-">> \o Pad(NatToStr(d[2]), 2)
        \o <<"-">> \o Pad(NatToStr(d[3]), 2)

\* time.isoformat(): HH:MM:SS, and .ffffff when the microsecond is not 0
TimeToIso(t) ==
    Pad(NatToStr(t[1]), 2) \o <<":">> \o Pad(NatToStr(t[2]), 2)
        \o <<":">> \o Pad(NatToStr(t[3]), 2)
        \o (IF t[4] = 0 THEN <<>> ELSE <<".">> \o Pad(NatToStr(t[4]), 6))

\* datetime.isoformat(): the date, "T", the time
DatetimeToIso(dt) ==
    DateToIso(<<dt[1], dt[2], dt[3]>>) \o <<"T">>
        \o TimeToIso(<<dt[4], dt[5], dt[6], dt[7]>>)

DaysInMonth(y, m) ==
    IF m \in {4, 6, 9, 11} THEN 30
    ELSE IF m # 2 THEN 31
    ELSE IF y % 4 = 0 /\ (y % 100 # 0 \/ y % 400 = 0) THEN 29 ELSE 28

\* whether date.fromisoformat(s) accepts s (the YYYY-MM-DD form)
IsIsoDate(s) ==
    /\ Len(s) = 10
    /\ s[5] = "-" /\ s[8] = "-"
    /\ AllDigits(SubSeq(s, 1, 4)) /\ AllDigits(SubSeq(s, 6, 7))
    /\ AllDigits(SubSeq(s, 9, 10))
    /\ LET y == DigitsToNat(SubSeq(s, 1, 4))
           m == DigitsToNat(SubSeq(s, 6, 7))
           d == DigitsToNat(SubSeq(s, 9, 10))
       IN  y >= 1 /\ m \in 1..12 /\ d \in 1..DaysInMonth(y, m)

IsoToDate(s) ==
    <<DigitsToNat(SubSeq(s, 1, 4)), DigitsToNat(SubSeq(s, 6, 7)),
      DigitsToNat(SubSeq(s, 9, 10))>>

\* whether time.fromisoformat(s) accepts s (HH:MM:SS or HH:MM:SS.ffffff)
IsIsoTime(s) ==
    /\ Len(s) \in {8, 15}
    /\ s[3] = ":" /\ s[6] = ":"
    /\ AllDigits(SubSeq(s, 1, 2)) /\ AllDigits(SubSeq(s, 4, 5))
    /\ AllDigits(SubSeq(s, 7, 8))
    /\ (Len(s) = 15 => s[9] = "." /\ AllDigits(SubSeq(s, 10, 15)))
    /\ DigitsToNat(SubSeq(s, 1, 2)) \in 0..23
    /\ DigitsToNat(SubSeq(s, 4, 5)) \in 0..59
    /\ DigitsToNat(SubSeq(s, 7, 8)) \in 0..59

IsoToTime(s) ==
    <<DigitsToNat(SubSeq(s, 1, 2)), DigitsToNat(SubSeq(s, 4, 5)),
      DigitsToNat(SubSeq(s, 7, 8)),
      IF Len(s) = 15 THEN DigitsToNat(SubSeq(s, 10, 15)) ELSE 0>>

\* whether datetime.fromisoformat(s) accepts s (date, one separator, time)
IsIsoDatetime(s) ==
    /\ Len(s) \in {19, 26}
    /\ IsIsoDate(SubSeq(s, 1, 10))
    /\ IsIsoTime(SubSeq(s, 12, Len(s)))

IsoToDatetime(s) ==
    IsoToDate(SubSeq(s, 1, 10)) \o IsoToTime(SubSeq(s, 12, Len(s)))

-----------------------------------------------------------------------------
(* Outcomes.  A call either returns a value or raises; log is the trace of *)
(* what ran on the way: custom hooks, constructors, constraints.           *)

NoError == <<"NoError">>
Return(v, log) == [ok |-> TRUE, val |-> v, err |-> NoError, log |-> log]
Raise(e, log) == [ok |-> FALSE, val |-> None, err |-> e, log |-> log]

\* builtin exceptions raised by the constructors from_json calls
TypeError == <<"TypeError">>
ValueError == <<"ValueError">>
KeyError(key) == <<"KeyError", key>>
InvalidOperation == <<"InvalidOperation">>
\* filament's exceptions
ExportTypeError(value) == <<"ExportTypeError", value>>
ImportTypeError(value, target_type) == <<"ImportTypeError", value, target_type>>
ValueRequiredError(target_type) == <<"ValueRequiredError", target_type>>
NoneRequiredError(value) == <<"NoneRequiredError", value>>
UnknownClassTagError(tag) == <<"UnknownClassTagError", tag>>
\* a ConstraintError subclass: its name, the constraint, path.value and the
\* constraint's own payload (the acceptable values of a Choices)
ConstraintError(name, constraint, path, payload) ==
    <<name, constraint, path, payload>>

ErrorName(e) == e[1]

HookEvent(cls) == <<"hook", cls>>
CtorEvent(cls) == <<"ctor", cls>>
ApplyEvent(constraint, field, value) == <<"apply", constraint, field, value>>

-----------------------------------------------------------------------------
(* Python builtins applied to JSON values *)

RECURSIVE PyRepr(_)
RECURSIVE JoinRepr(_)
RECURSIVE JoinItemRepr(_)

\* ", ".join(repr(x) for x in items)
JoinRepr(items) ==
    IF items = <<>> THEN <<>>
    ELSE IF Len(items) = 1 THEN PyRepr(items[1])
    ELSE PyRepr(items[1]) \o <<",", " ">> \o JoinRepr(Tail(items))

\* ", ".join(repr(k) + ": " + repr(v) for k, v in items)
JoinItemRepr(items) ==
    IF items = <<>> THEN <<>>
    ELSE LET one == PyRepr(items[1][1]) \o <<":", " ">> \o PyRepr(items[1][2])
         IN  IF Len(items) = 1 THEN one
             ELSE one \o <<",", " ">> \o JoinItemRepr(Tail(items))

\* repr(v)
PyRepr(v) ==
    CASE Kind(v) = "none" -> Chars("None")
      [] Kind(v) = "bool" -> IF v[2] THEN Chars("True") ELSE Chars("False")
      [] Kind(v) = "int" -> IntToStr(v[2])
      [] Kind(v) = "str" -> <<"'">> \o v[2] \o <<"'">>
      [] Kind(v) = "list" -> <<"[">> \o JoinRepr(v[2]) \o <<"]">>
      [] Kind(v) = "dict" -> <<"{">> \o JoinItemRepr(v[2]) \o <<"}">>

\* str(v)
PyStr(v) == IF Kind(v) = "str" THEN v[2] ELSE PyRepr(v)

\* bool(v)
PyBool(v) ==
    CASE Kind(v) = "none" -> FALSE
      [] Kind(v) = "bool" -> v[2]
      [] Kind(v) = "int" -> v[2] # 0
      [] Kind(v) \in {"str", "list", "dict"} -> v[2] # <<>>

\* a == b for JSON scalars: a bool is the int 0 or 1
AsNumber(v) == IF Kind(v) = "bool" THEN IntV(IF v[2] THEN 1 ELSE 0) ELSE v
PyEq(a, b) == AsNumber(a) = AsNumber(b)

\* int(v): an int, a bool, or a str holding an integer literal
PyInt(v) ==
    CASE Kind(v) = "int" -> Return(v, <<>>)
      [] Kind(v) = "bool" -> Return(AsNumber(v), <<>>)
      [] Kind(v) = "str" ->
            IF IsIntLiteral(v[2]) THEN Return(IntV(StrToInt(v[2])), <<>>)
            ELSE Raise(ValueError, <<>>)
      [] OTHER -> Raise(TypeError, <<>>)

\* Decimal(v): an int, a bool, or a str holding a decimal literal
PyDecimal(v) ==
    CASE Kind(v) \in {"int", "bool"} ->
            LET n == AsNumber(v)[2]
            IN  Return(DecimalV(IF n < 0 THEN 1 ELSE 0, IF n < 0 THEN -n ELSE n, 0),
                       <<>>)
      [] Kind(v) = "str" ->
            IF IsDecimalLiteral(v[2])
            THEN Return(<<"Decimal", StrToDecimal(v[2])>>, <<>>)
            ELSE Raise(InvalidOperation, <<>>)
      [] OTHER -> Raise(TypeError, <<>>)

\* cls.fromisoformat(v) for cls in date, time, datetime
FromIsoFormat(v, target_type) ==
    IF Kind(v) # "str" THEN Raise(TypeError, <<>>)
    ELSE CASE target_type = TDate ->
                IF IsIsoDate(v[2]) THEN Return(<<"date", IsoToDate(v[2])>>, <<>>)
                ELSE Raise(ValueError, <<>>)
           [] target_type = TTime ->
                IF IsIsoTime(v[2]) THEN Return(<<"time", IsoToTime(v[2])>>, <<>>)
                ELSE Raise(ValueError, <<>>)
           [] target_type = TDatetime ->
                IF IsIsoDatetime(v[2])
                THEN Return(<<"datetime", IsoToDatetime(v[2])>>, <<>>)
                ELSE Raise(ValueError, <<>>)

-----------------------------------------------------------------------------
(* The classes of the program under conversion: the fixtures of the tests. *)

\* class TestEnum(Enum): A = 1; B = 2; C = 3
EnumMembers(cls) ==
    CASE cls = "TestEnum" -> <<<<"A", IntV(1)>>, <<"B", IntV(2)>>, <<"C", IntV(3)>>>>

EnumValue(cls, member) ==
    LET ms == EnumMembers(cls)
    IN  ms[CHOOSE i \in 1..Len(ms) : ms[i][1] = member][2]

\* cls(v) for an Enum class: the member whose value equals v
PyEnum(cls, v) ==
    LET ms == EnumMembers(cls)
        hits == {i \in 1..Len(ms) : Kind(v) \in {"int", "bool", "str"} /\ PyEq(ms[i][2], v)}
    IN  IF hits = {} THEN Raise(ValueError, <<>>)
        ELSE Return(EnumV(cls, ms[CHOOSE i \in hits : TRUE][1]), <<>>)

\* The classes deriving from TaggedClass, with their direct base.
TaggedNames == {"A", "B", "C", "D", "X", "Y"}

Base(cls) ==
    CASE cls \in {"A", "X"} -> "TaggedClass"
      [] cls \in {"B", "C"} -> "A"
      [] cls = "D" -> "B"
      [] cls = "Y" -> "X"
      [] OTHER -> "object"

\* The annotations a class statement declares itself, in order.
OwnAnnotations(cls) ==
    CASE cls = "A" -> <<<<"a", TStr>>>>
      [] cls = "B" -> <<<<"b", TStr>>>>
      [] cls = "C" -> <<<<"c", TStr>>>>
      [] cls = "D" -> <<<<"d", TStr>>>>
      [] cls = "TestObject" -> <<<<"num", TInt>>, <<"text", TStr>>>>
      [] cls = "Mixed" -> <<<<"u", Union(<<TInt, TStr>>)>>, <<"o", Optional(TInt)>>>>
      [] cls = "Scalars" ->
            <<<<"e", TEnum("TestEnum")>>, <<"d", TDecimal>>, <<"t", TDate>>>>
      [] cls = "Outer" ->
            <<<<"inner", Class("TestObject")>>, <<"a", Class("A")>>,
              <<"items", ListOf(TInt)>>>>
      [] cls = "Spam" ->
            <<<<"x", Annotated(TInt, <<"even_constraint", "odd_constraint">>)>>>>
      [] cls = "SpamTwo" ->
            <<<<"x", Annotated(TInt, <<"even_constraint">>)>>,
              <<"y", Annotated(TInt, <<"odd_constraint">>)>>>>
      [] cls = "SpamStatic" -> <<<<"x", Annotated(TInt, <<"static_choices">>)>>>>
      [] cls = "SpamDynamic" -> <<<<"x", Annotated(TInt, <<"dynamic_choices">>)>>>>
      [] cls = "SpamItems" ->
            <<<<"items", ListOf(Annotated(TInt, <<"dynamic_choices">>))>>>>
      [] OTHER -> <<>>

\* A plausible slip: the annotations along the MRO, own fields first.
RECURSIVE get_type_hints_own_first(_)
get_type_hints_own_first(cls) ==
    IF Base(cls) \in {"object", "TaggedClass"} THEN OwnAnnotations(cls)
    ELSE OwnAnnotations(cls) \o get_type_hints_own_first(Base(cls))

\* typing.get_type_hints(cls): the annotations along the reversed MRO, so
\* that inherited fields come first.
RECURSIVE get_type_hints(_)
get_type_hints(cls) ==
    IF Base(cls) \in {"object", "TaggedClass"} THEN OwnAnnotations(cls)
    ELSE get_type_hints(Base(cls)) \o OwnAnnotations(cls)

FieldNames(cls) == [i \in 1..Len(get_type_hints(cls)) |-> get_type_hints(cls)[i][1]]

\* The root of a tagged class: the ancestor that derives from TaggedClass.
RECURSIVE Root(_)
Root(cls) == IF Base(cls) = "TaggedClass" THEN cls ELSE Root(Base(cls))

IsTagged(cls) == cls \in TaggedNames

\* classes implementing the CustomJSONImporter / CustomJSONExporter protocol
HasCustomImporter(cls) == cls = "Custom"
HasCustomExporter(cls) == cls = "Custom"

-----------------------------------------------------------------------------
(* Instances *)

\* getattr(value, name)
Attr(value, name) ==
    LET attrs == value[3]
    IN  attrs[CHOOSE i \in 1..Len(attrs) : attrs[i][1] = name][2]

\* class Custom: to_json(self) returns self.value + "!"
CustomToJson(value) ==
    LET v == Attr(value, "value")
    IN  IF Kind(v) = "str" THEN Return(Str(v[2] \o <<"!">>), <<HookEvent(value[2])>>)
        ELSE Raise(TypeError, <<HookEvent(value[2])>>)

\* class Custom: from_json(cls, value) returns cls(value + "!")
CustomFromJson(cls, value) ==
    IF Kind(value) = "str"
    THEN Return(Obj(cls, <<<<"value", Str(value[2] \o <<"!">>)>>>>),
                <<HookEvent(cls), CtorEvent(cls)>>)
    ELSE Raise(TypeError, <<HookEvent(cls)>>)

\* hash(k) raises TypeError for a list or a dict
Hashable(k) == Kind(k) \notin {"list", "dict"}

\* d[k] = v on the items of a dict: an equal key keeps its place
DictSet(items, k, v) ==
    IF \E i \in 1..Len(items) : PyEq(items[i][1], k)
    THEN [i \in 1..Len(items) |->
            IF PyEq(items[i][1], k) THEN <<items[i][1], v>> ELSE items[i]]
    ELSE Append(items, <<k, v>>)

\* d[k] for a dict whose keys are str
HasKey(d, k) == \E i \in 1..Len(d[2]) : d[2][i][1] = k
GetItem(d, k) == d[2][CHOOSE i \in 1..Len(d[2]) : d[2][i][1] = k][2]

\* the discriminator entry of an exported tagged instance
ClassKey == Str(Chars("class"))

\* A plausible slip: the tag of the root of the hierarchy is emitted.
TagEntriesOfRoot(cls) ==
    IF IsTagged(cls) THEN <<<<ClassKey, Str(Chars(filament_tag[Root(cls)]))>>>>
    ELSE <<>>

\* The entry that the export of an instance of a tagged class starts with:
\* the tag its actual class registered under.
TagEntries(cls) ==
    IF IsTagged(cls) THEN <<<<ClassKey, Str(Chars(filament_tag[cls]))>>>> ELSE <<>>

-----------------------------------------------------------------------------
(* to_json *)

RECURSIVE to_json(_, _)
RECURSIVE ExportMapping(_, _, _)
RECURSIVE ExportCollection(_, _, _)
RECURSIVE ExportFields(_, _, _, _)

\* for k, v in value.items(): k = to_json(k); record[k] = to_json(v)
ExportMapping(items, record, log) ==
    IF items = <<>> THEN Return(Dict(record), log)
    ELSE LET k == to_json(items[1][1], TRUE)
         IN  IF ~k.ok THEN Raise(k.err, log \o k.log)
             ELSE LET v == to_json(items[1][2], TRUE)
                  IN  IF ~v.ok THEN Raise(v.err, log \o k.log \o v.log)
                      ELSE IF ~Hashable(k.val)
                           THEN Raise(TypeError, log \o k.log \o v.log)
                           ELSE ExportMapping(Tail(items),
                                              DictSet(record, k.val, v.val),
                                              log \o k.log \o v.log)

\* A plausible slip: an element that cannot be exported is left out.
ExportCollectionSkipping(items, out, log) ==
    IF items = <<>> THEN Return(List(out), log)
    ELSE LET v == to_json(items[1], TRUE)
         IN  IF ~v.ok THEN ExportCollection(Tail(items), out, log \o v.log)
             ELSE ExportCollection(Tail(items), Append(out, v.val), log \o v.log)

\* [to_json(v) for v in value]
ExportCollection(items, out, log) ==
    IF items = <<>> THEN Return(List(out), log)
    ELSE LET v == to_json(items[1], TRUE)
         IN  IF ~v.ok THEN Raise(v.err, log \o v.log)
             ELSE ExportCollection(Tail(items), Append(out, v.val), log \o v.log)

\* {field_name: to_json(getattr(value, field_name)) for field_name, __ in
\*  annotations.items()}
ExportFields(value, names, out, log) ==
    IF names = <<>> THEN Return(Dict(out), log)
    ELSE LET v == to_json(Attr(value, names[1]), TRUE)
         IN  IF ~v.ok THEN Raise(v.err, log \o v.log)
             ELSE ExportFields(value, Tail(names),
                               Append(out, <<Str(Chars(names[1])), v.val>>),
                               log \o v.log)

\* get_type_hints(type(value)): a class object is an instance of type,
\* which has no annotations
TypeHintsOfTypeOf(value) ==
    IF Kind(value) = "obj" THEN FieldNames(value[2]) ELSE <<>>

to_json(value, use_custom_exporter) ==
    IF Kind(value) = "none" THEN Return(None, <<>>)
    ELSE IF use_custom_exporter /\ Kind(value) = "obj" /\ HasCustomExporter(value[2])
    THEN CustomToJson(value)
    \* getattr of the class object itself finds the plain function, and the
    \* call without self raises TypeError
    ELSE IF use_custom_exporter /\ Kind(value) = "type" /\ HasCustomExporter(value[2])
    THEN Raise(TypeError, <<>>)
    ELSE IF Kind(value) \in {"str", "int", "bool"} THEN Return(value, <<>>)
    ELSE IF Kind(value) = "enum"
    THEN Return(EnumValue(value[2][1], value[2][2]), <<>>)
    ELSE IF Kind(value) = "Decimal" THEN Return(Str(DecimalToStr(value[2])), <<>>)
    ELSE IF Kind(value) = "date" THEN Return(Str(DateToIso(value[2])), <<>>)
    ELSE IF Kind(value) = "time" THEN Return(Str(TimeToIso(value[2])), <<>>)
    ELSE IF Kind(value) = "datetime"
    THEN Return(Str(DatetimeToIso(value[2])), <<>>)
    ELSE IF Kind(value) = "dict" THEN ExportMapping(value[2], <<>>, <<>>)
    ELSE IF Kind(value) \in {"list", "tuple"}
    THEN ExportCollection(value[2], <<>>, <<>>)
    ELSE IF Kind(value) # "function" /\ TypeHintsOfTypeOf(value) # <<>>
    THEN ExportFields(value, TypeHintsOfTypeOf(value), TagEntries(value[2]), <<>>)
    ELSE Raise(ExportTypeError(value), <<>>)

-----------------------------------------------------------------------------
(* Tagged classes: resolution of the class to build from the discriminator *)

\* cls.filament_tags: the registry a declared tagged class refers to
Registry(cls) == filament_tags[registry_of[cls]]

\* A plausible slip: the tag is looked up in the registries of all
\* hierarchies.
LookupTagAnywhere(registry, tag) ==
    IF \E id \in DOMAIN filament_tags :
            \E t \in DOMAIN filament_tags[id] : Str(Chars(t)) = tag
    THEN LET id == CHOOSE id \in DOMAIN filament_tags :
                        \E t \in DOMAIN filament_tags[id] : Str(Chars(t)) = tag
         IN  filament_tags[id][CHOOSE t \in DOMAIN filament_tags[id] :
                                    Str(Chars(t)) = tag]
    ELSE ""

\* The class named by the JSON value tag in the registry, or "" when the
\* registry has no such tag.
LookupTag(registry, tag) ==
    IF \E t \in DOMAIN registry : Str(Chars(t)) = tag
    THEN registry[CHOOSE t \in DOMAIN registry : Str(Chars(t)) = tag]
    ELSE ""

\* A plausible slip: a missing discriminator selects the root.
MissingTagShapeRoot(target_cls) == Root(target_cls)

\* The class built when the JSON object carries no discriminator: the
\* requested target itself (the root when the root is requested).
MissingTagShape(target_cls) == target_cls

\* The class to build for a JSON object imported against target_cls.
ResolveShape(value, target_cls) ==
    IF ~IsTagged(target_cls) THEN Return(target_cls, <<>>)
    ELSE IF ~HasKey(value, ClassKey) THEN Return(MissingTagShape(target_cls), <<>>)
    ELSE LET tag == GetItem(value, ClassKey)
             cls == LookupTag(Registry(target_cls), tag)
         IN  IF cls = "" THEN Raise(UnknownClassTagError(tag), <<>>)
             ELSE IF Root(cls) # Root(target_cls)
             THEN Raise(ImportTypeError(value, Class(target_cls)), <<>>)
             ELSE Return(cls, <<>>)

-----------------------------------------------------------------------------
(* Constraints *)

NoPath == <<>>
\* ImportPath: the value, the field name and the parent path
ImportPath(value, field_name, parent) == <<value, field_name, parent>>
PathValue(path) == path[1]
PathField(path) == path[2]

\* acceptable_values = frozenset([2, 4, 5])
acceptable_values == {IntV(2), IntV(4), IntV(5)}

\* Choices(lambda path: acceptable_values): the set computed at each call
DynamicChoices(path) == acceptable_values

\* The acceptable values of a Choices constraint for the path it is applied to
ResolveChoices(constraint, path) ==
    IF constraint = "static_choices" THEN acceptable_values
    ELSE DynamicChoices(path)

\* EvenNumbersConstraint.apply
EvenNumbersConstraintApply(constraint, path) ==
    IF PathValue(path)[2] % 2 # 0
    THEN Raise(ConstraintError("EvenNumbersConstraintError", constraint, path, {}),
               <<>>)
    ELSE Return(None, <<>>)

\* OddNumbersConstraint.apply
OddNumbersConstraintApply(constraint, path) ==
    IF PathValue(path)[2] % 2 = 0
    THEN Raise(ConstraintError("OddNumbersConstraintError", constraint, path, {}),
               <<>>)
    ELSE Return(None, <<>>)

\* Choices.apply: the value must be one of the acceptable values
ChoicesApply(constraint, path) ==
    LET acceptable == ResolveChoices(constraint, path)
    IN  IF \E a \in acceptable : PyEq(a, PathValue(path))
        THEN Return(None, <<>>)
        ELSE Raise(ConstraintError("InvalidChoiceError", constraint, path, acceptable),
                   <<>>)

\* constraint.apply(path), by the class of the constraint instance
Apply(constraint, path) ==
    CASE constraint = "even_constraint" -> EvenNumbersConstraintApply(constraint, path)
      [] constraint = "odd_constraint" -> OddNumbersConstraintApply(constraint, path)
      [] constraint \in {"static_choices", "dynamic_choices"} ->
            ChoicesApply(constraint, path)

\* A plausible slip: every constraint is applied and the first failure is
\* raised at the end.
RECURSIVE ApplyConstraintsAll(_, _, _)
ApplyConstraintsAll(path, constraints, log) ==
    IF constraints = <<>> THEN Return(None, log)
    ELSE LET event == ApplyEvent(constraints[1], PathField(path), PathValue(path))
             r == Apply(constraints[1], path)
             rest == ApplyConstraintsAll(path, Tail(constraints), Append(log, event))
         IN  IF ~r.ok THEN Raise(r.err, rest.log) ELSE rest

\* The constraints of one descriptor, applied in declaration order; the
\* first failure ends the pass.
RECURSIVE ApplyConstraints(_, _, _)
ApplyConstraints(path, constraints, log) ==
    IF constraints = <<>> THEN Return(None, log)
    ELSE LET event == ApplyEvent(constraints[1], PathField(path), PathValue(path))
             r == Apply(constraints[1], path)
         IN  IF ~r.ok THEN Raise(r.err, Append(log, event))
             ELSE ApplyConstraints(path, Tail(constraints), Append(log, event))

\* The validation of one resolved field: the constraints of its descriptor,
\* then those of the element descriptor once per element, each element with
\* a path whose parent is the path of the container field.
RECURSIVE ValidateField(_, _, _)
RECURSIVE ValidateElements(_, _, _, _)

\* A plausible slip: only the first element is validated.
ValidateFirstElement(items, descriptor, parent, log) ==
    IF items = <<>> THEN Return(None, log)
    ELSE ValidateField(ImportPath(items[1], PathField(parent), parent),
                       descriptor, log)

ValidateElements(items, descriptor, parent, log) ==
    IF items = <<>> THEN Return(None, log)
    ELSE LET r == ValidateField(ImportPath(items[1], PathField(parent), parent),
                                descriptor, log)
         IN  IF ~r.ok THEN r
             ELSE ValidateElements(Tail(items), descriptor, parent, r.log)

ValidateField(path, descriptor, log) ==
    IF Kind(descriptor) = "Annotated"
    THEN LET r == ApplyConstraints(path, descriptor[3], log)
         IN  IF ~r.ok THEN r ELSE ValidateField(path, descriptor[2], r.log)
    ELSE IF Kind(descriptor) = "list" /\ Kind(PathValue(path)) = "list"
    THEN ValidateElements(PathValue(path)[2], descriptor[2], path, log)
    ELSE Return(None, log)

\* Every field of a record, in declaration order.
RECURSIVE ValidateFields(_, _, _)
ValidateFields(kwargs, annotations, log) ==
    IF annotations = <<>> THEN Return(None, log)
    ELSE LET r == ValidateField(ImportPath(kwargs[1][2], kwargs[1][1], NoPath),
                                annotations[1][2], log)
         IN  IF ~r.ok THEN r
             ELSE ValidateFields(Tail(kwargs), Tail(annotations), r.log)

\* A descriptor without its constraints: what the field is imported against.
RECURSIVE Unannotated(_)
Unannotated(t) ==
    CASE Kind(t) = "Annotated" -> Unannotated(t[2])
      [] Kind(t) = "list" -> ListOf(Unannotated(t[2]))
      [] OTHER -> t

-----------------------------------------------------------------------------
(* from_json *)

\* target_type.__origin__ of list[...], dict[...], tuple[...]: the error of
\* a generic target names the origin class
Origin(target_type) == <<"origin", Kind(target_type)>>

\* except (TypeError, ValueError): the builtin exceptions and filament's
\* subclasses of them
IsTypeOrValueError(e) ==
    ErrorName(e) \in {"TypeError", "ValueError", "ImportTypeError",
                      "ValueRequiredError", "NoneRequiredError"}

\* The failures of the tag and constraint steps that union resolution
\* recovers from.
IsTagOrConstraintError(e) ==
    ErrorName(e) \in {"UnknownClassTagError", "EvenNumbersConstraintError",
                      "OddNumbersConstraintError", "InvalidChoiceError"}

\* what the except clause of the union loop catches
Caught(e) == IsTypeOrValueError(e) \/ IsTagOrConstraintError(e)

RECURSIVE from_json(_, _, _)
RECURSIVE ImportUnion(_, _, _, _)
RECURSIVE ImportMapping(_, _, _, _)
RECURSIVE ImportTuple(_, _, _, _)
RECURSIVE ImportCollection(_, _, _, _)
RECURSIVE ImportFields(_, _, _, _)

\* A plausible slip: the failure of the first alternative ends the loop.
ImportUnionFirstOnly(value, target_type, args, log) ==
    IF args = <<>> THEN Raise(ImportTypeError(value, target_type), log)
    ELSE LET r == from_json(value, args[1], TRUE)
         IN  IF r.ok THEN Return(r.val, log \o r.log)
             ELSE Raise(ImportTypeError(value, target_type), log \o r.log)

\* for union_type in target_type.__args__: try: return from_json(value,
\* union_type) except (TypeError, ValueError): pass
\* raise ImportTypeError(value, target_type)
ImportUnion(value, target_type, args, log) ==
    IF args = <<>> THEN Raise(ImportTypeError(value, target_type), log)
    ELSE LET r == from_json(value, args[1], TRUE)
         IN  IF r.ok THEN Return(r.val, log \o r.log)
             ELSE IF Caught(r.err)
             THEN ImportUnion(value, target_type, Tail(args), log \o r.log)
             ELSE Raise(r.err, log \o r.log)

\* target_type((from_json(k, type_args[0]), from_json(v, type_args[1]))
\*             for k, v in value.items())
ImportMapping(items, target_type, out, log) ==
    IF items = <<>> THEN Return(Dict(out), log)
    ELSE LET k == from_json(items[1][1], target_type[2], TRUE)
         IN  IF ~k.ok THEN Raise(k.err, log \o k.log)
             ELSE LET v == from_json(items[1][2], target_type[3], TRUE)
                  IN  IF ~v.ok THEN Raise(v.err, log \o k.log \o v.log)
                      ELSE IF ~Hashable(k.val)
                      THEN Raise(TypeError, log \o k.log \o v.log)
                      ELSE ImportMapping(Tail(items), target_type,
                                         DictSet(out, k.val, v.val),
                                         log \o k.log \o v.log)

\* target_type(from_json(v, t) for v, t in zip(value, type_args))
ImportTuple(items, type_args, out, log) ==
    IF items = <<>> \/ type_args = <<>> THEN Return(Tuple(out), log)
    ELSE LET v == from_json(items[1], type_args[1], TRUE)
         IN  IF ~v.ok THEN Raise(v.err, log \o v.log)
             ELSE ImportTuple(Tail(items), Tail(type_args), Append(out, v.val),
                              log \o v.log)

\* target_type(from_json(v, type_args[0]) for v in value)
ImportCollection(items, elem_type, out, log) ==
    IF items = <<>> THEN Return(List(out), log)
    ELSE LET v == from_json(items[1], elem_type, TRUE)
         IN  IF ~v.ok THEN Raise(v.err, log \o v.log)
             ELSE ImportCollection(Tail(items), elem_type, Append(out, v.val),
                                   log \o v.log)

\* {field_name: from_json(value[field_name], field_type)
\*  for field_name, field_type in annotations.items()}
ImportFields(value, annotations, kwargs, log) ==
    IF annotations = <<>> THEN Return(kwargs, log)
    ELSE LET field_name == annotations[1][1]
             key == Str(Chars(field_name))
         IN  IF ~HasKey(value, key) THEN Raise(KeyError(key), log)
             ELSE LET v == from_json(GetItem(value, key),
                                     Unannotated(annotations[1][2]), TRUE)
                  IN  IF ~v.ok THEN Raise(v.err, log \o v.log)
                      ELSE ImportFields(value, Tail(annotations),
                                        Append(kwargs, <<field_name, v.val>>),
                                        log \o v.log)

\* A plausible slip: the class is called before the constraints are applied.
ImportRecordEager(value, target_cls) ==
    LET shape == ResolveShape(value, target_cls)
    IN  IF ~shape.ok THEN shape
        ELSE IF get_type_hints(shape.val) = <<>>
        THEN Raise(ImportTypeError(value, Class(shape.val)), <<>>)
        ELSE LET annotations == get_type_hints(shape.val)
                 fields == ImportFields(value, annotations, <<>>, <<>>)
             IN  IF ~fields.ok THEN Raise(fields.err, fields.log)
                 ELSE LET built == Append(fields.log, CtorEvent(shape.val))
                          checked == ValidateFields(fields.val, annotations, built)
                      IN  IF ~checked.ok THEN Raise(checked.err, checked.log)
                          ELSE Return(Obj(shape.val, fields.val), checked.log)

\* The import of a JSON object against a class with annotations: the class
\* to build is resolved, its fields are imported, their constraints are
\* applied, and only then is the class called.
ImportRecord(value, target_cls) ==
    LET shape == ResolveShape(value, target_cls)
    IN  IF ~shape.ok THEN shape
        ELSE IF get_type_hints(shape.val) = <<>>
        THEN Raise(ImportTypeError(value, Class(shape.val)), <<>>)
        ELSE LET annotations == get_type_hints(shape.val)
                 fields == ImportFields(value, annotations, <<>>, <<>>)
             IN  IF ~fields.ok THEN Raise(fields.err, fields.log)
                 ELSE LET checked == ValidateFields(fields.val, annotations,
                                                    fields.log)
                      IN  IF ~checked.ok THEN Raise(checked.err, checked.log)
                          ELSE Return(Obj(shape.val, fields.val),
                                      Append(checked.log, CtorEvent(shape.val)))

\* A plausible slip: the JSON value is returned as it came, the class is
\* not called.
ConstructScalarUnconverted(value, target_type) == Return(value, <<>>)

\* if issubclass(target_type, (int, float, str, Enum, Decimal)):
\*     return target_type(value)
ConstructScalar(value, target_type) ==
    CASE target_type = TInt -> PyInt(value)
      [] target_type = TStr -> Return(Str(PyStr(value)), <<>>)
      [] target_type = TBool -> Return(Bool(PyBool(value)), <<>>)
      [] Kind(target_type) = "Enum" -> PyEnum(target_type[2], value)
      [] target_type = TDecimal -> PyDecimal(value)

IsScalarType(target_type) ==
    target_type \in {TInt, TStr, TBool, TDecimal} \/ Kind(target_type) = "Enum"

\* The part of from_json after the custom importer: target_type(value) for
\* the scalar classes, fromisoformat for the date classes, the generic
\* containers, then the classes with annotations.
ImportByType(value, target_type) ==
    CASE IsScalarType(target_type) -> ConstructScalar(value, target_type)
      [] target_type \in {TDate, TTime, TDatetime} ->
            FromIsoFormat(value, target_type)
      [] Kind(target_type) = "dict" ->
            IF Kind(value) # "dict"
            THEN Raise(ImportTypeError(value, Origin(target_type)), <<>>)
            ELSE ImportMapping(value[2], target_type, <<>>, <<>>)
      [] Kind(target_type) = "tuple" ->
            IF Kind(value) # "list"
            THEN Raise(ImportTypeError(value, Origin(target_type)), <<>>)
            ELSE ImportTuple(value[2], target_type[2], <<>>, <<>>)
      [] Kind(target_type) = "list" ->
            IF Kind(value) # "list"
            THEN Raise(ImportTypeError(value, Origin(target_type)), <<>>)
            ELSE ImportCollection(value[2], target_type[2], <<>>, <<>>)
      [] Kind(target_type) = "class" ->
            IF Kind(value) = "dict" THEN ImportRecord(value, target_type[2])
            ELSE Raise(ImportTypeError(value, target_type), <<>>)

\* A plausible slip: the custom importer is looked up before the None checks.
from_json_importer_first(value, target_type, use_custom_importer) ==
    IF Kind(target_type) = "Union"
    THEN ImportUnion(value, target_type, target_type[2], <<>>)
    ELSE IF /\ use_custom_importer
            /\ Kind(target_type) = "class"
            /\ HasCustomImporter(target_type[2])
    THEN CustomFromJson(target_type[2], value)
    ELSE IF target_type = TNone
    THEN IF value # None THEN Raise(NoneRequiredError(value), <<>>)
         ELSE Return(None, <<>>)
    ELSE IF value = None THEN Raise(ValueRequiredError(target_type), <<>>)
    ELSE ImportByType(value, target_type)

from_json(value, target_type, use_custom_importer) ==
    IF Kind(target_type) = "Union"
    THEN ImportUnion(value, target_type, target_type[2], <<>>)
    ELSE IF target_type = TNone
    THEN IF value # None THEN Raise(NoneRequiredError(value), <<>>)
         ELSE Return(None, <<>>)
    ELSE IF value = None THEN Raise(ValueRequiredError(target_type), <<>>)
    ELSE IF /\ use_custom_importer
            /\ Kind(target_type) = "class"
            /\ HasCustomImporter(target_type[2])
    THEN CustomFromJson(target_type[2], value)
    ELSE ImportByType(value, target_type)

-----------------------------------------------------------------------------
(* The json module: the text codec behind dumps and loads *)

JSONDecodeError == <<"JSONDecodeError">>
RecursionError == <<"RecursionError">>

EncodeEvent(value) == <<"encode", value>>
DecodeEvent(text) == <<"decode", text>>

NullText == <<"n", "u", "l", "l">>
TrueText == <<"t", "r", "u", "e">>
FalseText == <<"f", "a", "l", "s", "e">>

\* the quote and the backslash are escaped with a backslash
RECURSIVE EscapeChars(_)
EscapeChars(s) ==
    IF s = <<>> THEN <<>>
    ELSE (IF s[1] \in {"\"", "\\"} THEN <<"\\", s[1]>> ELSE <<s[1]>>)
         \o EscapeChars(Tail(s))

Quote(s) == <<"\"">> \o EscapeChars(s) \o <<"\"">>

\* json.dumps accepts str, int, bool and None keys and writes them as str
IsJsonKey(k) == Kind(k) \in {"str", "int", "bool", "none"}

KeyText(k) ==
    CASE Kind(k) = "str" -> k[2]
      [] Kind(k) = "int" -> IntToStr(k[2])
      [] Kind(k) = "bool" -> IF k[2] THEN TrueText ELSE FalseText
      [] Kind(k) = "none" -> NullText

\* whether json.dumps can serialize the value
RECURSIVE IsJson(_)
IsJson(v) ==
    CASE Kind(v) \in {"none", "bool", "int", "str"} -> TRUE
      [] Kind(v) \in {"list", "tuple"} -> \A i \in 1..Len(v[2]) : IsJson(v[2][i])
      [] Kind(v) = "dict" ->
            \A i \in 1..Len(v[2]) : IsJsonKey(v[2][i][1]) /\ IsJson(v[2][i][2])
      [] OTHER -> FALSE

\* the text of a serializable value, with the default separators
RECURSIVE Encode(_)
RECURSIVE EncodeItems(_)
RECURSIVE EncodeEntries(_)
Encode(v) ==
    CASE Kind(v) = "none" -> NullText
      [] Kind(v) = "bool" -> IF v[2] THEN TrueText ELSE FalseText
      [] Kind(v) = "int" -> IntToStr(v[2])
      [] Kind(v) = "str" -> Quote(v[2])
      [] Kind(v) \in {"list", "tuple"} -> <<"[">> \o EncodeItems(v[2]) \o <<"]">>
      [] Kind(v) = "dict" -> <<"{">> \o EncodeEntries(v[2]) \o <<"}">>

EncodeItems(items) ==
    IF items = <<>> THEN <<>>
    ELSE IF Len(items) = 1 THEN Encode(items[1])
    ELSE Encode(items[1]) \o <<",", " ">> \o EncodeItems(Tail(items))

EncodeEntries(items) ==
    IF items = <<>> THEN <<>>
    ELSE LET one == Quote(KeyText(items[1][1])) \o <<":", " ">> \o Encode(items[1][2])
         IN  IF Len(items) = 1 THEN one
             ELSE one \o <<",", " ">> \o EncodeEntries(Tail(items))

\* json.dumps(value)
json_dumps(value) ==
    IF IsJson(value) THEN Return(Str(Encode(value)), <<EncodeEvent(value)>>)
    ELSE Raise(TypeError, <<EncodeEvent(value)>>)

\* the outcome of scanning one JSON value: the value and the index after it
Fail == [ok |-> FALSE, val |-> None, next |-> 0]
Parsed(v, next) == [ok |-> TRUE, val |-> v, next |-> next]

RECURSIVE SkipWs(_, _)
SkipWs(s, i) == IF i <= Len(s) /\ s[i] = " " THEN SkipWs(s, i + 1) ELSE i

StartsWith(s, i, word) ==
    i + Len(word) - 1 <= Len(s) /\ SubSeq(s, i, i + Len(word) - 1) = word

\* the characters up to the closing quote; i is the index after the opening
\* quote (of the escapes only those of the quote and the backslash occur in
\* the texts)
RECURSIVE ScanString(_, _, _)
ScanString(s, i, acc) ==
    IF i > Len(s) THEN Fail
    ELSE IF s[i] = "\"" THEN Parsed(Str(acc), i + 1)
    ELSE IF s[i] = "\\"
    THEN IF i + 1 <= Len(s) /\ s[i + 1] \in {"\"", "\\"}
         THEN ScanString(s, i + 2, Append(acc, s[i + 1]))
         ELSE Fail
    ELSE ScanString(s, i + 1, Append(acc, s[i]))

RECURSIVE ScanDigits(_, _)
ScanDigits(s, i) == IF i <= Len(s) /\ s[i] \in Digits THEN ScanDigits(s, i + 1) ELSE i

\* -?(0|[1-9][0-9]*): the integer literals (the texts hold no fractions or
\* exponents)
ParseNumber(s, i) ==
    LET start == IF s[i] = "-" THEN i + 1 ELSE i
        stop == ScanDigits(s, start)
        end == IF stop > start /\ s[start] = "0" THEN start + 1 ELSE stop
    IN  IF stop = start THEN Fail
        ELSE Parsed(IntV(StrToInt(SubSeq(s, i, end - 1))), end)

RECURSIVE ParseValue(_, _)
RECURSIVE ParseItems(_, _, _)
RECURSIVE ParseEntries(_, _, _)

ParseValue(s, from) ==
    LET i == SkipWs(s, from)
    IN  IF i > Len(s) THEN Fail
        ELSE IF StartsWith(s, i, NullText) THEN Parsed(None, i + 4)
        ELSE IF StartsWith(s, i, TrueText) THEN Parsed(Bool(TRUE), i + 4)
        ELSE IF StartsWith(s, i, FalseText) THEN Parsed(Bool(FALSE), i + 5)
        ELSE IF s[i] = "\"" THEN ScanString(s, i + 1, <<>>)
        ELSE IF s[i] = "-" \/ s[i] \in Digits THEN ParseNumber(s, i)
        ELSE IF s[i] = "["
        THEN LET j == SkipWs(s, i + 1)
             IN  IF j <= Len(s) /\ s[j] = "]" THEN Parsed(List(<<>>), j + 1)
                 ELSE ParseItems(s, j, <<>>)
        ELSE IF s[i] = "{"
        THEN LET j == SkipWs(s, i + 1)
             IN  IF j <= Len(s) /\ s[j] = "}" THEN Parsed(Dict(<<>>), j + 1)
                 ELSE ParseEntries(s, j, <<>>)
        ELSE Fail

ParseItems(s, i, acc) ==
    LET v == ParseValue(s, i)
    IN  IF ~v.ok THEN Fail
        ELSE LET j == SkipWs(s, v.next)
             IN  IF j > Len(s) THEN Fail
                 ELSE IF s[j] = "]" THEN Parsed(List(Append(acc, v.val)), j + 1)
                 ELSE IF s[j] = "," THEN ParseItems(s, j + 1, Append(acc, v.val))
                 ELSE Fail

\* an equal key keeps its place and takes the later value
ParseEntries(s, from, acc) ==
    LET i == SkipWs(s, from)
    IN  IF i > Len(s) \/ s[i] # "\"" THEN Fail
        ELSE LET k == ScanString(s, i + 1, <<>>)
             IN  IF ~k.ok THEN Fail
                 ELSE LET c == SkipWs(s, k.next)
                      IN  IF c > Len(s) \/ s[c] # ":" THEN Fail
                          ELSE LET v == ParseValue(s, c + 1)
                               IN  IF ~v.ok THEN Fail
                                   ELSE LET j == SkipWs(s, v.next)
                                            items == DictSet(acc, k.val, v.val)
                                        IN  IF j > Len(s) THEN Fail
                                            ELSE IF s[j] = "}"
                                            THEN Parsed(Dict(items), j + 1)
                                            ELSE IF s[j] = ","
                                            THEN ParseEntries(s, j + 1, items)
                                            ELSE Fail

\* json.loads(text): one JSON value and nothing after it
json_loads(text) ==
    IF Kind(text) # "str" THEN Raise(TypeError, <<DecodeEvent(text)>>)
    ELSE LET v == ParseValue(text[2], 1)
         IN  IF v.ok /\ SkipWs(text[2], v.next) > Len(text[2])
             THEN Return(v.val, <<DecodeEvent(text)>>)
             ELSE Raise(JSONDecodeError, <<DecodeEvent(text)>>)

-----------------------------------------------------------------------------
(* dumps and loads *)

\* return json.dumps(to_json(value), **kwargs)
dumps(value) ==
    LET exported == to_json(value, TRUE)
    IN  IF ~exported.ok THEN exported
        ELSE LET text == json_dumps(exported.val)
             IN  IF ~text.ok THEN Raise(text.err, exported.log \o text.log)
                 ELSE Return(text.val, exported.log \o text.log)

\* filament._import.loads: return from_json(json.loads(json_str, **kwargs), type)
import_loads(json_str, type) ==
    LET decoded == json_loads(json_str)
    IN  IF ~decoded.ok THEN decoded
        ELSE LET imported == from_json(decoded.val, type, TRUE)
             IN  IF ~imported.ok THEN Raise(imported.err, decoded.log \o imported.log)
                 ELSE Return(imported.val, decoded.log \o imported.log)

\* filament.loads: return from_json(loads(json_str, **kwargs), type). The
\* inner call is loads itself, with type=None, and so on until the
\* interpreter's recursion limit raises RecursionError in the innermost frame.
RECURSIVE loads_frame(_, _, _)
loads_frame(json_str, type, depth) ==
    IF depth > RecursionLimit THEN Raise(RecursionError, <<>>)
    ELSE LET inner == loads_frame(json_str, TNone, depth + 1)
         IN  IF ~inner.ok THEN inner
             ELSE LET imported == from_json(inner.val, type, TRUE)
                  IN  IF ~imported.ok THEN Raise(imported.err, inner.log \o imported.log)
                      ELSE Return(imported.val, inner.log \o imported.log)

loads(json_str, type) == loads_frame(json_str, type, 1)

-----------------------------------------------------------------------------
(* Declaration of the tagged classes (TaggedClass.__init_subclass__) *)

\* The tags a class statement may ask for: the default (the class name) or
\* the filament_tag keyword of the class statement.
TagChoices(cls) ==
    CASE cls = "B" -> {"B", "foobar"}
      [] cls = "D" -> {"D", "C"}
      [] OTHER -> {cls}

\* a fresh dict object
NewRegistry == Cardinality(DOMAIN filament_tags) + 1

\* A plausible slip: every class statement allocates a registry.
RegistryPerClass(cls) == NewRegistry

\* The registry a class being declared refers to: a root allocates one, a
\* descendant reuses the object of its base.
RegistryFor(cls) ==
    IF Base(cls) = "TaggedClass" THEN NewRegistry ELSE registry_of[Base(cls)]

\* cls.filament_tags[tag] = cls
Register(registries, id, tag, cls) ==
    LET old == IF id \in DOMAIN registries THEN registries[id] ELSE <<>>
    IN  [i \in DOMAIN registries \cup {id} |->
            IF i = id
            THEN [t \in DOMAIN old \cup {tag} |-> IF t = tag THEN cls ELSE old[t]]
            ELSE registries[i]]

Idle ==
    [op |-> "idle", value |-> None, target_type |-> TNone, flag |-> TRUE,
     json |-> None, out |-> Return(None, <<>>)]

\* class cls(Base, filament_tag=tag): ...
DeclareClass(cls, tag) ==
    /\ call.op = "idle"
    /\ cls \in TaggedNames \ declared
    /\ Base(cls) = "TaggedClass" \/ Base(cls) \in declared
    /\ tag \in TagChoices(cls)
    /\ LET id == RegistryFor(cls)
       IN  \/ /\ id \in DOMAIN filament_tags
              /\ tag \in DOMAIN filament_tags[id]
              \* a tag already registered in the hierarchy: the class
              \* statement raises and the class does not exist
              /\ call' = [Idle EXCEPT !.op = "declare",
                                      !.out = Raise(<<"DuplicateTagError", tag>>, <<>>)]
              /\ UNCHANGED <<declared, filament_tag, registry_of, filament_tags>>
           \/ /\ ~(id \in DOMAIN filament_tags /\ tag \in DOMAIN filament_tags[id])
              /\ declared' = declared \cup {cls}
              /\ filament_tag' =
                    [c \in declared \cup {cls} |-> IF c = cls THEN tag ELSE filament_tag[c]]
              /\ registry_of' =
                    [c \in declared \cup {cls} |-> IF c = cls THEN id ELSE registry_of[c]]
              /\ filament_tags' = Register(filament_tags, id, tag, cls)
              /\ call' = [Idle EXCEPT !.op = "declare"]

-----------------------------------------------------------------------------
(* The values and targets handed to the calls *)

\* the numbers of the tests: (-2, 0, 1, 3, 6) and frozenset([2, 4, 5])
IntInputs == {-2, 0, 1, 2, 3, 4, 5, 6}

StrInputs ==
    {<<>>, <<"5">>, <<"a">>, <<"-", "2">>, <<"5", ".", "3">>, Chars("foobar"),
     <<"1", ".", "0", "0", "0">>, <<"2", "0", "2", "1", "-", "0", "2", "-", "3", "0">>}

SeqsUpTo(S, n) == UNION {[1..k -> S] : k \in 0..n}

IntLists == {List(l) : l \in SeqsUpTo({IntV(n) : n \in {1, 2, 5, 6}}, MaxListLen)}

\* a JSON object with the given entries; the value of field f is the str f
Entry(f) == <<Str(Chars(f)), Str(Chars(f))>>
FieldEntries(fs) ==
    LET names == SelectSeq(<<"a", "b", "c", "d">>, LAMBDA f : f \in fs)
    IN  [i \in 1..Len(names) |-> Entry(names[i])]

TagInputs == {"A", "B", "C", "D", "X", "foobar", "ZZZ"}

TaggedObjects ==
    {Dict(FieldEntries(fs)) : fs \in SUBSET {"a", "b", "c", "d"}}
    \cup {Dict(<<<<ClassKey, Str(Chars(tag))>>>> \o FieldEntries(fs)) :
            tag \in TagInputs, fs \in SUBSET {"a", "b", "c", "d"}}

SpamObjects ==
    {Dict(<<<<Str(<<"x">>), IntV(n)>>>>) : n \in IntInputs}
    \cup {Dict(<<<<Str(<<"x">>), IntV(n)>>, <<Str(<<"y">>), IntV(m)>>>>) :
            n \in IntInputs, m \in IntInputs}
    \cup {Dict(<<<<Str(Chars("items")), l>>>>) : l \in IntLists}

TestObjectJson ==
    {Dict(<<<<Str(Chars("num")), IntV(1)>>, <<Str(Chars("text")), Str(<<"a">>)>>>>),
     Dict(<<<<Str(Chars("num")), IntV(1)>>>>),
     Dict(<<<<Str(Chars("text")), Str(<<"a">>)>>, <<Str(Chars("num")), Str(<<"5">>)>>>>)}

\* JSON objects for the class Outer: complete, or with a field that is
\* missing or fails after the field inner was imported
OuterJson ==
    LET inner == Dict(<<<<Str(Chars("num")), IntV(1)>>, <<Str(Chars("text")), Str(<<"a">>)>>>>)
        a == Dict(<<Entry("a")>>)
        Object(i, x, l) ==
            Dict(<<<<Str(Chars("inner")), i>>, <<Str(<<"a">>), x>>, <<Str(Chars("items")), l>>>>)
    IN  {Object(inner, a, List(<<IntV(1), IntV(2)>>)),
         Object(inner, IntV(5), List(<<>>)),
         Object(inner, a, List(<<Str(<<"a">>)>>)),
         Object(inner, Dict(<<<<ClassKey, Str(Chars("ZZZ"))>>, Entry("a")>>), List(<<>>)),
         Object(Dict(<<<<Str(Chars("num")), IntV(1)>>>>), a, List(<<>>)),
         Dict(<<<<Str(Chars("inner")), inner>>, <<Str(<<"a">>), a>>>>)}

JsonScalars ==
    {None, Bool(TRUE), Bool(FALSE)}
    \cup {IntV(n) : n \in IntInputs}
    \cup {Str(s) : s \in StrInputs}

JsonInputs ==
    JsonScalars
    \cup {List(<<>>), List(<<IntV(1), Str(<<"5">>)>>), List(<<IntV(1), Str(<<"a">>), IntV(2)>>),
          Dict(<<>>), Dict(<<<<Str(<<"a">>), IntV(1)>>, <<Str(<<"5">>), Str(<<"5">>)>>>>)}
    \cup TestObjectJson

ScalarTypes ==
    {TInt, TStr, TBool, TDecimal, TDate, TTime, TDatetime, TEnum("TestEnum")}

UnionTypes ==
    {Union(<<TInt, TStr>>), Union(<<TStr, TInt>>), Union(<<TInt, TDatetime>>),
     Union(<<TDecimal, TStr>>), Union(<<TInt, TDecimal, TStr>>),
     Union(<<Class("TestObject"), TStr>>),
     Union(<<Class("Custom"), TInt>>),
     Optional(TInt), Optional(TStr), Optional(Class("Custom")),
     Optional(Class("TestObject"))}

PlainTargets ==
    {TNone} \cup ScalarTypes \cup UnionTypes
    \cup {ListOf(TInt), ListOf(Optional(TInt)), DictOf(TStr, TInt),
          TupleOf(<<TInt, TStr>>), Class("TestObject"), Class("Custom"),
          Class("Mixed")}

TaggedTargets ==
    {Class(c) : c \in {"A", "B", "C", "D", "X"}}
    \cup {Optional(Class("B")), Union(<<Class("B"), Class("A")>>)}

OuterTargets ==
    {Class("Outer"), Optional(Class("Outer")), Union(<<Class("Outer"), TStr>>),
     Union(<<Class("Outer"), Class("TestObject")>>)}

SpamTargets ==
    {Class(c) : c \in {"Spam", "SpamTwo", "SpamStatic", "SpamDynamic", "SpamItems"}}

\* the <<value, target_type>> pairs of the from_json calls
ImportInputs ==
    (JsonInputs \X PlainTargets)
    \cup ((TaggedObjects \cup {None, IntV(5)}) \X TaggedTargets)
    \cup (SpamObjects \X SpamTargets)
    \cup ((OuterJson \cup TestObjectJson) \X OuterTargets)

\* the tagged classes a target refers to: they must exist for the call
RECURSIVE TypeClasses(_)
TypeClasses(t) ==
    CASE Kind(t) = "Union" -> UNION {TypeClasses(t[2][i]) : i \in 1..Len(t[2])}
      [] Kind(t) = "tuple" -> UNION {TypeClasses(t[2][i]) : i \in 1..Len(t[2])}
      [] Kind(t) \in {"list", "Annotated"} -> TypeClasses(t[2])
      [] Kind(t) = "dict" -> TypeClasses(t[2]) \cup TypeClasses(t[3])
      [] Kind(t) = "class" ->
            ({t[2]} \cap TaggedNames)
            \cup UNION {TypeClasses(get_type_hints(t[2])[i][2]) :
                            i \in 1..Len(get_type_hints(t[2]))}
      [] OTHER -> {}

\* the tagged classes a value holds instances of
RECURSIVE ValueClasses(_)
ValueClasses(v) ==
    CASE Kind(v) = "obj" ->
            TypeClasses(Class(v[2]))
            \cup UNION {ValueClasses(v[3][i][2]) : i \in 1..Len(v[3])}
      [] Kind(v) \in {"list", "tuple"} -> UNION {ValueClasses(v[2][i]) : i \in 1..Len(v[2])}
      [] Kind(v) = "dict" ->
            UNION {ValueClasses(v[2][i][1]) \cup ValueClasses(v[2][i][2]) :
                        i \in 1..Len(v[2])}
      [] OTHER -> {}

\* type(value), as the target of the import of its export
TypeOf(v) ==
    CASE Kind(v) = "none" -> TNone
      [] Kind(v) = "bool" -> TBool
      [] Kind(v) = "int" -> TInt
      [] Kind(v) = "str" -> TStr
      [] Kind(v) = "enum" -> TEnum(v[2][1])
      [] Kind(v) = "Decimal" -> TDecimal
      [] Kind(v) = "date" -> TDate
      [] Kind(v) = "time" -> TTime
      [] Kind(v) = "datetime" -> TDatetime
      [] Kind(v) = "obj" -> Class(v[2])

ScalarValues ==
    {Bool(TRUE), Bool(FALSE)}
    \cup {IntV(n) : n \in IntInputs}
    \cup {Str(s) : s \in StrInputs}
    \cup {EnumV("TestEnum", m) : m \in {"A", "B", "C"}}
    \cup {DecimalV(0, 0, 0), DecimalV(0, 1000, -3), DecimalV(1, 1375323, -5),
          DecimalV(0, 5, -1), DecimalV(0, 5, -3), DecimalV(1, 0, 0)}
    \cup {DateV(2021, 1, 5), DateV(2024, 2, 29), DateV(987, 12, 31)}
    \cup {TimeV(10, 30, 0, 0), TimeV(23, 59, 59, 5), TimeV(0, 0, 0, 123456)}
    \cup {DatetimeV(2021, 1, 5, 10, 30, 0, 0), DatetimeV(2024, 2, 29, 23, 59, 59, 5)}

\* instances of the tagged classes: every field holds its own name
Instance(cls) ==
    Obj(cls, [i \in 1..Len(FieldNames(cls)) |->
                <<FieldNames(cls)[i], Str(Chars(FieldNames(cls)[i]))>>])

TaggedInstances == {Instance(c) : c \in {"A", "B", "C", "D"}}

TestObjects ==
    {Obj("TestObject", <<<<"num", IntV(n)>>, <<"text", Str(s)>>>>) :
        n \in {1, -2}, s \in {<<"5">>, Chars("foobar")}}

MixedObjects ==
    {Obj("Mixed", <<<<"u", u>>, <<"o", o>>>>) :
        u \in {IntV(5), Str(<<"5">>), Str(<<"a">>), Str(<<"-", "2">>)},
        o \in {None, IntV(0)}}

ScalarsObjects ==
    {Obj("Scalars", <<<<"e", EnumV("TestEnum", m)>>, <<"d", d>>, <<"t", t>>>>) :
        m \in {"A", "C"},
        d \in {DecimalV(0, 1000, -3), DecimalV(1, 5, -1)},
        t \in {DateV(2021, 1, 5), DateV(2024, 2, 29)}}

OuterObjects ==
    {Obj("Outer", <<<<"inner", inner>>, <<"a", a>>, <<"items", items>>>>) :
        inner \in TestObjects,
        a \in TaggedInstances,
        items \in {List(<<>>), List(<<IntV(1), IntV(2)>>)}}

Records ==
    TestObjects \cup MixedObjects \cup ScalarsObjects \cup OuterObjects
    \cup TaggedInstances

\* the values of the to_json calls
ExportInputs ==
    {None} \cup ScalarValues \cup Records
    \cup {Obj("Custom", <<<<"value", Str(<<"a">>)>>>>),
          Obj("Bare", <<>>), Function("foobar"), ClassObject("Bare"),
          List(<<IntV(1), Str(<<"a">>)>>),
          Tuple(<<IntV(1), DecimalV(0, 5, -1)>>),
          Dict(<<<<Str(<<"a">>), IntV(1)>>, <<Str(<<"b">>), DateV(2021, 1, 5)>>>>),
          Dict(<<<<IntV(1), Str(<<"a">>)>>>>),
          Dict(<<<<Str(<<"a">>), IntV(1)>>, <<None, IntV(2)>>>>),
          Dict(<<<<DecimalV(0, 5, -1), List(<<IntV(1)>>)>>>>),
          List(<<IntV(1), Function("foobar")>>),
          ClassObject("Custom"), ClassObject("TestObject"),
          List(<<List(<<Obj("Bare", <<>>)>>), IntV(1)>>),
          Dict(<<<<Str(<<"a">>), IntV(1)>>, <<Str(<<"b">>), ClassObject("Bare")>>>>),
          Obj("TestObject", <<<<"num", IntV(1)>>, <<"text", Function("foobar")>>>>)}

\* the texts handed to loads: the encodings of JSON values of the tests and
\* texts that are not JSON
JsonTexts ==
    {json_dumps(v).val : v \in {None, Bool(TRUE), IntV(5), IntV(-2), Str(<<"5">>),
                                Str(<<"a">>), List(<<IntV(1), Str(<<"5">>)>>),
                                Dict(<<>>)} \cup TestObjectJson}
    \cup {Str(<<>>), Str(<<"[", "1", ",">>), Str(<<"n", "u", "l">>),
          Str(<<" ", "5", " ">>), Str(<<"0", "1">>),
          Str(<<"{", "\"", "a", "\"", ":", "1", ",", "\"", "a", "\"", ":", "2", "}">>)}

LoadsTargets ==
    {TNone, TInt, TStr, Union(<<TInt, TStr>>), ListOf(TInt), DictOf(TStr, TInt),
     Class("TestObject")}

-----------------------------------------------------------------------------
(* The calls *)

Init ==
    /\ declared = {}
    /\ filament_tag = <<>>
    /\ registry_of = <<>>
    /\ filament_tags = <<>>
    /\ call = Idle

\* to_json(value)
ToJsonCall(value) ==
    /\ call.op = "idle"
    /\ ValueClasses(value) \subseteq declared
    /\ call' = [Idle EXCEPT !.op = "to_json", !.value = value,
                            !.out = to_json(value, TRUE)]
    /\ UNCHANGED <<declared, filament_tag, registry_of, filament_tags>>

\* from_json(value, target_type, use_custom_importer=flag)
FromJsonCall(value, target_type, flag) ==
    /\ call.op = "idle"
    /\ TypeClasses(target_type) \subseteq declared
    /\ call' = [Idle EXCEPT !.op = "from_json", !.value = value,
                            !.target_type = target_type, !.flag = flag,
                            !.out = from_json(value, target_type, flag)]
    /\ UNCHANGED <<declared, filament_tag, registry_of, filament_tags>>

\* from_json(to_json(value), type(value))
RoundTripCall(value) ==
    /\ call.op = "idle"
    /\ ValueClasses(value) \subseteq declared
    /\ LET exported == to_json(value, TRUE)
       IN  /\ exported.ok
           /\ call' = [Idle EXCEPT !.op = "round_trip", !.value = value,
                                   !.target_type = TypeOf(value),
                                   !.json = exported.val,
                                   !.out = from_json(exported.val, TypeOf(value), TRUE)]
    /\ UNCHANGED <<declared, filament_tag, registry_of, filament_tags>>

\* dumps(value)
DumpsCall(value) ==
    /\ call.op = "idle"
    /\ ValueClasses(value) \subseteq declared
    /\ call' = [Idle EXCEPT !.op = "dumps", !.value = value, !.out = dumps(value)]
    /\ UNCHANGED <<declared, filament_tag, registry_of, filament_tags>>

\* filament.loads(json_str, type)
LoadsCall(json_str, type) ==
    /\ call.op = "idle"
    /\ call' = [Idle EXCEPT !.op = "filament.loads", !.value = json_str,
                            !.target_type = type, !.out = loads(json_str, type)]
    /\ UNCHANGED <<declared, filament_tag, registry_of, filament_tags>>

\* filament._import.loads(json_str, type)
ImportLoadsCall(json_str, type) ==
    /\ call.op = "idle"
    /\ call' = [Idle EXCEPT !.op = "filament._import.loads", !.value = json_str,
                            !.target_type = type,
                            !.out = import_loads(json_str, type)]
    /\ UNCHANGED <<declared, filament_tag, registry_of, filament_tags>>

\* the caller is done with the outcome of the call
Forget ==
    /\ call.op # "idle"
    /\ call' = Idle
    /\ UNCHANGED <<declared, filament_tag, registry_of, filament_tags>>

\* the flags a from_json call is made with: use_custom_importer=False is
\* only passed for targets that involve a class with a custom importer
FlagInputs(target_type) ==
    IF target_type \in {Class("Custom"), Optional(Class("Custom")),
                        Union(<<Class("Custom"), TInt>>)}
    THEN BOOLEAN ELSE {TRUE}

Next ==
    \/ /\ call.op = "idle"
       /\ \E cls \in TaggedNames : \E tag \in TagChoices(cls) : DeclareClass(cls, tag)
    \/ /\ call.op = "idle"
       /\ \E value \in ExportInputs : ToJsonCall(value)
    \/ /\ call.op = "idle"
       /\ \E input \in ImportInputs, flag \in BOOLEAN :
            /\ flag \in FlagInputs(input[2])
            /\ FromJsonCall(input[1], input[2], flag)
    \/ /\ call.op = "idle"
       /\ \E value \in ScalarValues \cup Records : RoundTripCall(value)
    \/ /\ call.op = "idle"
       /\ \E value \in ExportInputs : DumpsCall(value)
    \/ /\ call.op = "idle"
       /\ \E json_str \in JsonTexts, type \in LoadsTargets : LoadsCall(json_str, type)
    \/ /\ call.op = "idle"
       /\ \E json_str \in JsonTexts, type \in LoadsTargets :
            ImportLoadsCall(json_str, type)
    \/ Forget

Spec == Init /\ [][Next]_vars

-----------------------------------------------------------------------------
(* Round trips *)

\* Whether an alternative declared before the one of the value's own type
\* imports the exported form of the value held at a Union.
EarlierAlternativeAccepts(v, union) ==
    LET args == union[2]
        own == CHOOSE i \in 1..Len(args) : args[i] = TypeOf(v)
    IN  \E k \in 1..(own - 1) : from_json(to_json(v, TRUE).val, args[k], TRUE).ok

\* Whether some field of the instance r, at any depth, is declared as a
\* Union and holds such a value.
RECURSIVE HasShadowedUnionField(_)
HasShadowedUnionField(r) ==
    \E i \in 1..Len(r[3]) :
        LET t == Unannotated(get_type_hints(r[2])[i][2])
            v == r[3][i][2]
        IN  \/ Kind(t) = "Union" /\ EarlierAlternativeAccepts(v, t)
            \/ Kind(v) = "obj" /\ HasShadowedUnionField(v)

RoundTripOf(kinds) == call.op = "round_trip" /\ Kind(call.value) \in kinds

C2_ScalarRoundTrip ==
    RoundTripOf({"bool", "int", "str", "enum", "Decimal", "date", "time", "datetime"})
        => /\ call.out.ok
           /\ call.out.val = call.value
           /\ Kind(call.value) = "enum"
                => call.json = EnumValue(call.value[2][1], call.value[2][2])
           /\ Kind(call.value) \in {"Decimal", "date", "time", "datetime"}
                => Kind(call.json) = "str"

\* a Decimal with leading zeros in its fraction made the round trip
C2_Witness ==
    /\ RoundTripOf({"Decimal"})
    /\ call.value = DecimalV(0, 5, -3)
    /\ call.json = Str(<<"0", ".", "0", "0", "5">>)
    /\ call.out.val = call.value

-----------------------------------------------------------------------------
(* Union and None *)

ImportOf(kind) == call.op = "from_json" /\ Kind(call.target_type) = kind

\* the alternatives of the union target whose own import of the value succeeds
Succeeding(value, union) ==
    {k \in 1..Len(union[2]) : from_json(value, union[2][k], TRUE).ok}

First(S) == CHOOSE k \in S : \A j \in S : k <= j

\* C3: the import against a Union returns the import against the first
\* alternative, in declared order, whose import succeeds, and fails with an
\* ImportTypeError naming the Union when no alternative succeeds.
C3_UnionLeftToRight ==
    ImportOf("Union") =>
        LET ok == Succeeding(call.value, call.target_type)
        IN  IF ok = {}
            THEN ~call.out.ok
                 /\ call.out.err = ImportTypeError(call.value, call.target_type)
            ELSE call.out.ok
                 /\ call.out.val =
                        from_json(call.value, call.target_type[2][First(ok)], TRUE).val

IsOptional(t) == Kind(t) = "Union" /\ Len(t[2]) = 2 /\ t[2][2] = TNone

HookEvents(log) == {i \in 1..Len(log) : log[i][1] = "hook"}

\* C4: against NoneType, None imports as None and any other value raises
\* NoneRequiredError; None against a target that is neither NoneType nor a
\* Union raises ValueRequiredError before any custom importer runs; against
\* Optional[T], None imports as None and a value that imports against T
\* imports as the same value.
C4_NoneHandling ==
    (call.op = "from_json" /\ call.flag) =>
        /\ call.target_type = TNone =>
                IF call.value = None THEN call.out = Return(None, <<>>)
                ELSE ~call.out.ok /\ call.out.err = NoneRequiredError(call.value)
        /\ (call.value = None /\ call.target_type # TNone
                /\ Kind(call.target_type) # "Union") =>
                /\ ~call.out.ok
                /\ call.out.err = ValueRequiredError(call.target_type)
                /\ HookEvents(call.out.log) = {}
        /\ IsOptional(call.target_type) =>
                /\ call.value = None => call.out.ok /\ call.out.val = None
                /\ LET inner == from_json(call.value, call.target_type[2][1], TRUE)
                   IN  inner.ok => call.out.ok /\ call.out.val = inner.val

\* None was refused for a class with a custom importer, which did not run
C4_Witness ==
    /\ call.op = "from_json"
    /\ call.value = None
    /\ call.target_type = Class("Custom")
    /\ ErrorName(call.out.err) = "ValueRequiredError"

-----------------------------------------------------------------------------
(* Tagged classes *)

TaggedClassTarget ==
    /\ call.op = "from_json"
    /\ Kind(call.target_type) = "class"
    /\ call.target_type[2] \in TaggedNames
    /\ Kind(call.value) = "dict"

\* the fields of a class in declared order, those of its bases first
RECURSIVE InheritedFirst(_)
InheritedFirst(cls) ==
    LET own == [i \in 1..Len(OwnAnnotations(cls)) |-> OwnAnnotations(cls)[i][1]]
    IN  IF Base(cls) \in {"object", "TaggedClass"} THEN own
        ELSE InheritedFirst(Base(cls)) \o own

AllPresent(value, names) ==
    \A i \in 1..Len(names) : HasKey(value, Str(Chars(names[i])))

\* the instance of cls whose fields hold the entries of the JSON object
BuiltFrom(value, cls) ==
    Obj(cls, [i \in 1..Len(InheritedFirst(cls)) |->
                <<InheritedFirst(cls)[i],
                  GetItem(value, Str(Chars(InheritedFirst(cls)[i])))>>])

\* C5 as stated: a JSON object without discriminator imported against any
\* class of a tagged hierarchy yields an instance of the root built from
\* the fields of the root, whatever class was requested.
C5_MissingTagGivesRootAsStated ==
    (/\ TaggedClassTarget
     /\ ~HasKey(call.value, ClassKey)
     /\ AllPresent(call.value, InheritedFirst(Root(call.target_type[2]))))
        => /\ call.out.ok
           /\ call.out.val = BuiltFrom(call.value, Root(call.target_type[2]))

\* C5, amended: a JSON object without discriminator imported against a
\* class of a tagged hierarchy yields an instance of the requested class
\* itself, built from the fields of that class only (other entries are
\* ignored); the import fails when a field of that class is missing.
C5_MissingTagGivesTarget ==
    (/\ TaggedClassTarget
     /\ ~HasKey(call.value, ClassKey)
     /\ InheritedFirst(call.target_type[2]) # <<>>)
        => LET cls == call.target_type[2]
           IN  /\ call.out.ok <=> AllPresent(call.value, InheritedFirst(cls))
               /\ call.out.ok => call.out.val = BuiltFrom(call.value, cls)

\* an object without discriminator carrying a and b was imported against
\* the derived class B
C5_Witness ==
    /\ TaggedClassTarget
    /\ "B" \in declared
    /\ call.target_type = Class("B")
    /\ call.value = Dict(FieldEntries({"a", "b"}))
    /\ call.out.ok
    /\ call.out.val = Instance("B")

\* the tags, as JSON values, of the registry of a declared class
RegisteredTags(cls) ==
    {Str(Chars(t)) : t \in DOMAIN filament_tags[registry_of[cls]]}

CtorEvents(log) == {i \in 1..Len(log) : log[i][1] = "ctor"}

\* C6: a JSON object whose discriminator is not a tag of the registry of
\* the hierarchy of the target class, also when it is a tag of another
\* hierarchy, raises UnknownClassTagError and builds no instance.
C6_UnknownTagFails ==
    (/\ TaggedClassTarget
     /\ HasKey(call.value, ClassKey)
     /\ GetItem(call.value, ClassKey) \notin RegisteredTags(call.target_type[2]))
        => /\ ~call.out.ok
           /\ call.out.err = UnknownClassTagError(GetItem(call.value, ClassKey))
           /\ CtorEvents(call.out.log) = {}

\* the tag of class X, declared in another hierarchy, was refused for A
C6_Witness ==
    /\ TaggedClassTarget
    /\ call.target_type = Class("A")
    /\ "X" \in declared
    /\ HasKey(call.value, ClassKey)
    /\ GetItem(call.value, ClassKey) = Str(Chars("X"))
    /\ ErrorName(call.out.err) = "UnknownClassTagError"

\* C7: the export of an instance of a tagged class is an object whose first
\* entry is "class" with the tag its own class registered under, followed
\* by one entry per field in declared order, inherited fields first, each
\* holding the export of the field; the export of an instance of any other
\* class with annotations holds the field entries only.  (A field whose own
\* export fails makes the whole export fail: that case is C14's.)
C7_TaggedExport ==
    (/\ call.op = "to_json"
     /\ Kind(call.value) = "obj"
     /\ ~HasCustomExporter(call.value[2])
     /\ InheritedFirst(call.value[2]) # <<>>
     /\ \A i \in 1..Len(InheritedFirst(call.value[2])) :
            to_json(Attr(call.value, InheritedFirst(call.value[2])[i]), TRUE).ok)
        => LET cls == call.value[2]
               names == InheritedFirst(cls)
               off == IF cls \in TaggedNames THEN 1 ELSE 0
           IN  /\ call.out.ok
               /\ Kind(call.out.val) = "dict"
               /\ Len(call.out.val[2]) = Len(names) + off
               /\ cls \in TaggedNames =>
                    call.out.val[2][1] = <<ClassKey, Str(Chars(filament_tag[cls]))>>
               /\ \A i \in 1..Len(names) :
                    call.out.val[2][i + off] =
                        <<Str(Chars(names[i])),
                          to_json(Attr(call.value, names[i]), TRUE).val>>
               /\ cls \notin TaggedNames => ~HasKey(call.out.val, ClassKey)

\* an instance of D, whose base B overrode its tag, was exported
C7_Witness ==
    /\ call.op = "to_json"
    /\ call.value = Instance("D")
    /\ filament_tag["B"] = "foobar"
    /\ call.out.val[2][1] = <<ClassKey, Str(<<"D">>)>>
    /\ Len(call.out.val[2]) = 4

DeclaredRoots == {c \in declared : Base(c) = "TaggedClass"}

\* the state of the registries after any declarations
RegistryState ==
    /\ DOMAIN registry_of = declared
    /\ \A c \in declared : registry_of[c] = registry_of[Root(c)]
    /\ \A r1, r2 \in DeclaredRoots : r1 # r2 => registry_of[r1] # registry_of[r2]
    /\ DOMAIN filament_tags = {registry_of[r] : r \in DeclaredRoots}
    /\ \A r \in DeclaredRoots :
        LET registry == filament_tags[registry_of[r]]
        IN  /\ {registry[t] : t \in DOMAIN registry} = {c \in declared : Root(c) = r}
            /\ \A t1, t2 \in DOMAIN registry : registry[t1] = registry[t2] => t1 = t2
            /\ \A c \in declared : Root(c) = r => registry[filament_tag[c]] = c

CallStep == call'.op \in {"to_json", "from_json", "round_trip"}

\* C8: after any declarations and calls, every class of a hierarchy refers
\* to the registry object of its root, two roots never share one, a
\* registry maps each tag to one class and holds exactly the declared
\* classes of its hierarchy, and no to_json or from_json call, failed or
\* not, changes a registry.
C8_RegistryInvariant ==
    /\ []RegistryState
    /\ [][CallStep => UNCHANGED <<declared, filament_tag, registry_of, filament_tags>>]_vars

\* both hierarchies are declared in full and a from_json call has failed
C8_Witness ==
    /\ {"A", "B", "X", "Y"} \subseteq declared
    /\ registry_of["B"] = registry_of["A"]
    /\ registry_of["Y"] # registry_of["A"]
    /\ call.op = "from_json"
    /\ ~call.out.ok

-----------------------------------------------------------------------------
(* Constraints *)

\* the <<field, constraint>> pairs of a class, in declaration order
RECURSIVE FieldConstraints(_)
FieldConstraints(annotations) ==
    IF annotations = <<>> THEN <<>>
    ELSE LET t == annotations[1][2]
             own == IF Kind(t) = "Annotated"
                    THEN [i \in 1..Len(t[3]) |-> <<annotations[1][1], t[3][i]>>]
                    ELSE <<>>
         IN  own \o FieldConstraints(Tail(annotations))

Applications(log) == SelectSeq(log, LAMBDA e : e[1] = "apply")

\* whether the int n satisfies the constraint
Satisfies(constraint, n) ==
    CASE constraint = "even_constraint" -> n % 2 = 0
      [] constraint = "odd_constraint" -> n % 2 = 1

ConstraintErrorName(constraint) ==
    CASE constraint = "even_constraint" -> "EvenNumbersConstraintError"
      [] constraint = "odd_constraint" -> "OddNumbersConstraintError"

ConstrainedImport ==
    /\ call.op = "from_json"
    /\ call.target_type \in {Class("Spam"), Class("SpamTwo")}
    /\ AllPresent(call.value, InheritedFirst(call.target_type[2]))

\* C9: the constraints of the fields are applied in declaration order to
\* the imported value of their field; the first one that fails ends the
\* import with its own error, carrying that constraint and a path whose
\* value is the value of the field; nothing is applied after it, and a
\* constraint is applied only when all the earlier ones passed.
C9_ConstraintOrder ==
    ConstrainedImport =>
        LET expected == FieldConstraints(OwnAnnotations(call.target_type[2]))
            applied == Applications(call.out.log)
            FieldValue(i) == GetItem(call.value, Str(Chars(expected[i][1])))
            failing == {i \in 1..Len(expected) :
                            ~Satisfies(expected[i][2], FieldValue(i)[2])}
        IN  /\ Len(applied) <= Len(expected)
            /\ \A i \in 1..Len(applied) :
                    applied[i] = ApplyEvent(expected[i][2], expected[i][1], FieldValue(i))
            /\ \A i \in 1..(Len(applied) - 1) :
                    Satisfies(expected[i][2], FieldValue(i)[2])
            /\ IF failing = {}
               THEN call.out.ok /\ Len(applied) = Len(expected)
               ELSE LET k == First(failing)
                    IN  /\ Len(applied) = k
                        /\ ~call.out.ok
                        /\ ErrorName(call.out.err) = ConstraintErrorName(expected[k][2])
                        /\ call.out.err[2] = expected[k][2]
                        /\ PathValue(call.out.err[3]) = FieldValue(k)
                        /\ CtorEvents(call.out.log) = {}

\* the first constraint of x passed and the second failed; and the
\* constraint of x passed and that of the later field y failed
C9_Witness ==
    /\ ConstrainedImport
    /\ \/ /\ call.target_type = Class("Spam")
          /\ Len(Applications(call.out.log)) = 2
          /\ ErrorName(call.out.err) = "OddNumbersConstraintError"
       \/ /\ call.target_type = Class("SpamTwo")
          /\ Len(Applications(call.out.log)) = 2
          /\ ErrorName(call.out.err) = "OddNumbersConstraintError"
          /\ PathField(call.out.err[3]) = "y"

\* the acceptable values of the tests
ExpectedChoices == {IntV(2), IntV(4), IntV(5)}

ChoicesOf(cls) == IF cls = "SpamStatic" THEN "static_choices" ELSE "dynamic_choices"

ChoicesImport ==
    /\ call.op = "from_json"
    /\ call.target_type \in {Class("SpamStatic"), Class("SpamDynamic"), Class("SpamItems")}
    /\ AllPresent(call.value, InheritedFirst(call.target_type[2]))

\* the values a Choices constraint is applied to: the field, or each element
\* of the list field
Constrained(value, cls) ==
    IF cls = "SpamItems" THEN GetItem(value, Str(Chars("items")))[2]
    ELSE <<GetItem(value, Str(<<"x">>))>>

\* C10: the import of a record whose field, or whose list field's element
\* descriptor, carries a Choices constraint succeeds exactly when the value,
\* or every element, is an acceptable value; otherwise it raises
\* InvalidChoiceError carrying that Choices instance, the path of the first
\* offending value and the acceptable values, the same for a static set and
\* for one computed from the path.
C10_Choices ==
    ChoicesImport =>
        LET cls == call.target_type[2]
            values == Constrained(call.value, cls)
            bad == {i \in 1..Len(values) : values[i] \notin ExpectedChoices}
        IN  /\ call.out.ok <=> bad = {}
            /\ bad # {} =>
                /\ ErrorName(call.out.err) = "InvalidChoiceError"
                /\ call.out.err[2] = ChoicesOf(cls)
                /\ PathValue(call.out.err[3]) = values[First(bad)]
                /\ call.out.err[4] = ExpectedChoices
                /\ CtorEvents(call.out.log) = {}

\* the second element of a list was refused, and a static set refused a value
C10_Witness ==
    /\ ChoicesImport
    /\ ErrorName(call.out.err) = "InvalidChoiceError"
    /\ \/ /\ call.target_type = Class("SpamItems")
          /\ call.value = Dict(<<<<Str(Chars("items")), List(<<IntV(5), IntV(6)>>)>>>>)
       \/ /\ call.target_type = Class("SpamStatic")
          /\ call.value = Dict(<<<<Str(<<"x">>), IntV(6)>>>>)

-----------------------------------------------------------------------------
(* Construction *)

\* the classes an import against cls may build
Family(cls) ==
    IF cls \in TaggedNames THEN {d \in TaggedNames : Root(d) = Root(cls)} ELSE {cls}

RecordImport ==
    /\ call.op = "from_json"
    /\ Kind(call.target_type) = "class"
    /\ Kind(call.value) = "dict"
    /\ ~HasCustomImporter(call.target_type[2])

\* whether the constraint of an apply event accepts the value it was given
Passed(event) ==
    IF event[2] \in {"even_constraint", "odd_constraint"}
    THEN Satisfies(event[2], event[4][2])
    ELSE event[4] \in ExpectedChoices

\* C11: in the import of a JSON object against a class with annotations the
\* class is called at most once, as the last step, after every field was
\* found and imported and every constraint was applied and passed; when a
\* field is missing, a field import fails or a constraint fails the class is
\* not called and no instance is returned.
C11_AtomicConstruction ==
    RecordImport =>
        LET log == call.out.log
            ctors == {i \in 1..Len(log) :
                        \E d \in Family(call.target_type[2]) : log[i] = CtorEvent(d)}
        IN  /\ Cardinality(ctors) <= 1
            /\ call.out.ok <=> ctors # {}
            /\ ~call.out.ok => call.out.val = None
            /\ call.out.ok =>
                /\ ctors = {Len(log)}
                /\ call.out.val[2] \in Family(call.target_type[2])
                /\ log[Len(log)] = CtorEvent(call.out.val[2])
                /\ AllPresent(call.value, InheritedFirst(call.out.val[2]))
                /\ [i \in 1..Len(call.out.val[3]) |-> call.out.val[3][i][1]]
                        = InheritedFirst(call.out.val[2])
                /\ \A i \in 1..Len(log) : log[i][1] = "apply" => Passed(log[i])
                /\ Len(Applications(log)) >=
                        Len(FieldConstraints(OwnAnnotations(call.out.val[2])))

\* the field inner of Outer was imported and its class called, then the
\* field a failed: Outer was not called
C11_Witness ==
    /\ RecordImport
    /\ call.target_type = Class("Outer")
    /\ ~call.out.ok
    /\ ErrorName(call.out.err) = "ImportTypeError"
    /\ call.out.log = <<CtorEvent("TestObject")>>

-----------------------------------------------------------------------------
(* dumps and loads *)

Decodings(log) == SelectSeq(log, LAMBDA e : e[1] = "decode")

\* C12: loads(text, type), that of the package and that of the import
\* module, hands the text to json.loads exactly once and returns the outcome
\* of from_json(json.loads(text), type), the failure of json.loads when it
\* fails; dumps(value) returns the outcome of json.dumps(to_json(value)).
C12_LoadsDumps ==
    /\ call.op \in {"filament.loads", "filament._import.loads"} =>
        LET decoded == json_loads(call.value)
            imported == from_json(decoded.val, call.target_type, TRUE)
        IN  /\ Decodings(call.out.log) = <<DecodeEvent(call.value)>>
            /\ IF ~decoded.ok
               THEN ~call.out.ok /\ call.out.err = decoded.err
               ELSE /\ call.out.ok = imported.ok
                    /\ call.out.val = imported.val
                    /\ call.out.err = imported.err
    /\ call.op = "dumps" =>
        LET exported == to_json(call.value, TRUE)
            text == json_dumps(exported.val)
        IN  IF ~exported.ok
            THEN ~call.out.ok /\ call.out.err = exported.err
            ELSE /\ call.out.ok = text.ok
                 /\ call.out.val = text.val
                 /\ call.out.err = text.err

-----------------------------------------------------------------------------
(* Export *)

\* the exports of the keys and of the values of a dict
KeyExports(d) == [i \in 1..Len(d[2]) |-> to_json(d[2][i][1], TRUE)]
ValueExports(d) == [i \in 1..Len(d[2]) |-> to_json(d[2][i][2], TRUE)]

\* C13: the export of a mapping is an object with one entry (export of the
\* key, export of the value) per entry of the mapping, in its order, and it
\* fails when the export of a key is not a str: no object with a key that
\* is not a str is returned.
C13_MappingExport ==
    (call.op = "to_json" /\ Kind(call.value) = "dict") =>
        LET keys == KeyExports(call.value)
            values == ValueExports(call.value)
            exportable ==
                \A i \in 1..Len(keys) :
                    keys[i].ok /\ values[i].ok /\ Kind(keys[i].val) = "str"
        IN  /\ call.out.ok <=> exportable
            /\ call.out.ok =>
                /\ Kind(call.out.val) = "dict"
                /\ call.out.val[2] =
                        [i \in 1..Len(keys) |-> <<keys[i].val, values[i].val>>]
                /\ \A i \in 1..Len(call.out.val[2]) :
                        Kind(call.out.val[2][i][1]) = "str"

\* a value no rule of the export applies to: a function, a class object, or
\* an instance of a class without annotations, none of them with a to_json
\* attribute
Unexportable(v) ==
    \/ Kind(v) = "function"
    \/ Kind(v) = "type" /\ ~HasCustomExporter(v[2])
    \/ Kind(v) = "obj" /\ InheritedFirst(v[2]) = <<>> /\ ~HasCustomExporter(v[2])

\* the values of that kind held by v, v included
RECURSIVE Offenders(_)
Offenders(v) ==
    (IF Unexportable(v) THEN {v} ELSE {})
    \cup CASE Kind(v) \in {"list", "tuple"} ->
                UNION {Offenders(v[2][i]) : i \in 1..Len(v[2])}
           [] Kind(v) = "dict" ->
                UNION {Offenders(v[2][i][1]) \cup Offenders(v[2][i][2]) :
                            i \in 1..Len(v[2])}
           [] Kind(v) = "obj" /\ ~HasCustomExporter(v[2]) ->
                UNION {Offenders(v[3][i][2]) : i \in 1..Len(v[3])}
           [] OTHER -> {}

-----------------------------------------------------------------------------
(* Union resolution *)

\* C15: in the import against a Union every failure of an alternative is
\* caught and the next alternative is tried: the import succeeds when some
\* alternative imports the value, and the only failure that leaves it is the
\* ImportTypeError naming the Union, raised after every alternative failed.
C15_UnionCatchesEveryFailure ==
    ImportOf("Union") =>
        /\ Succeeding(call.value, call.target_type) # {} => call.out.ok
        /\ ~call.out.ok =>
            /\ Succeeding(call.value, call.target_type) = {}
            /\ call.out.err = ImportTypeError(call.value, call.target_type)

Constructions(log) == SelectSeq(log, LAMBDA e : e[1] = "ctor")

\* C16: in the import against a Union the classes that are called are those
\* the alternative that succeeds calls in its own import: an alternative
\* that fails calls none, not even that of a nested record whose field
\* imported before a later field failed, and a Union import that fails
\* calls none at all.
C16_NoTraceOfFailedAttempts ==
    ImportOf("Union") =>
        LET ok == Succeeding(call.value, call.target_type)
        IN  IF call.out.ok /\ ok # {}
            THEN Constructions(call.out.log) =
                    Constructions(from_json(call.value,
                                            call.target_type[2][First(ok)], TRUE).log)
            ELSE Constructions(call.out.log) = <<>>

-----------------------------------------------------------------------------
(* Custom importers *)

\* the targets whose top-level value is imported against the class Custom
HookTargets ==
    {Class("Custom"), Optional(Class("Custom")), Union(<<Class("Custom"), TInt>>)}

\* C17: a from_json call with use_custom_importer=False does not call the
\* from_json hook of the target class for the value it was given, be the
\* target the class itself or an Optional or Union that holds it.
C17_HookingDisabled ==
    (/\ call.op = "from_json"
     /\ ~call.flag
     /\ call.target_type \in HookTargets)
        => \A i \in 1..Len(call.out.log) : call.out.log[i] # HookEvent("Custom")

-----------------------------------------------------------------------------
(* Tuples *)

\* the imports of the elements of a list against the element types
ElementImports(items, type_args) ==
    [i \in 1..Len(type_args) |-> from_json(items[i], type_args[i], TRUE)]

\* C18: the import of a JSON value against tuple[D1, ..., Dn] returns the
\* tuple of the imports of the n elements when the value is a list of
\* length n, raises ImportTypeError when the value is not a list, and fails
\* when the list has another length: no tuple of another length is returned.
C18_TupleArity ==
    (ImportOf("tuple") /\ call.value # None) =>
        LET type_args == call.target_type[2]
        IN  /\ Kind(call.value) # "list" =>
                /\ ~call.out.ok
                /\ ErrorName(call.out.err) = "ImportTypeError"
            /\ (Kind(call.value) = "list" /\ Len(call.value[2]) # Len(type_args)) =>
                ~call.out.ok
            /\ (Kind(call.value) = "list" /\ Len(call.value[2]) = Len(type_args)) =>
                LET elements == ElementImports(call.value[2], type_args)
                IN  /\ call.out.ok <=> \A i \in 1..Len(elements) : elements[i].ok
                    /\ call.out.ok =>
                        call.out.val = Tuple([i \in 1..Len(elements) |-> elements[i].val])
            /\ call.out.ok => Len(call.out.val[2]) = Len(type_args)

====
